---- MODULE Spec2Model ----
(***************************************************************************)
(* A model of subgraphs/feature_fit.py: the embedding cache                *)
(* (load_embeddings), the feature catalog loader (load_features_concepts), *)
(* the feature-fit estimator (analyze_features) and the aggregation in     *)
(* main.                                                                   *)
(*                                                                         *)
(* Text is modelled as sequences of one-character strings, so that         *)
(* str.split, str.strip, "\n".join and line iteration are computed and not *)
(* assumed.                                                                *)
(***************************************************************************)
EXTENDS Integers, Sequences, FiniteSets, TLC

VARIABLES
    PIVOT,        \* the module constant PIVOT of the current run
    glove,        \* contents of the raw embedding file INPUT, per pivot
    embFile,      \* contents of the file EMBEDDINGS, per pivot, or NoFile
    vocabFile,    \* contents of the file VOCAB (text), or NoFile
    catalog,      \* contents of the file FEATURES, a list of text lines
    features,     \* feature name -> Feature, as load_features_concepts returns it
    concepts,     \* load_embeddings' argument / load_features_concepts' result
    vocab,        \* the vocabulary list load_embeddings returns
    embeddings,   \* the embedding matrix load_embeddings returns
    feature_data, \* the (name, count, score) triples analyze_features returns
    best_C,       \* the regularization strength analyze_features chose
    out,          \* the feature rows written to the report OUTPUT
    summaries,    \* the group-summary tables of the report, per grouping key
    fcat_med,     \* main's table fcat_med
    C_futures,    \* the submitted (C, feature) tasks and how far each one is
    C_results,    \* the accumulator C -> merged scores of analyze_features
    trial_scores, \* the score list each worker task returns
    Y_pos,        \* loocv_feature: the rows of Y that are 1 in column f_idx
    log_prob,     \* loocv_feature: log predict_proba per held-out row and row
    f_concepts,   \* loocv_feature: the positive rows sampled, in trial order
    loo_scores,   \* loocv_feature: the scores of the trials
    runs,         \* concurrent runs of load_embeddings: position and locals
    saving,       \* the concurrent runs that are inside np.save(EMBEDDINGS, ..)
    pc,           \* where the run is, or the exception that ended it
    lastBuild     \* history: the last cache-miss run (its inputs and what it returned)

vars == <<PIVOT, glove, embFile, vocabFile, catalog, features, concepts, vocab,
          embeddings, feature_data, best_C, out, summaries, fcat_med, pc, lastBuild,
          C_futures, C_results, trial_scores, Y_pos, log_prob, f_concepts, loo_scores,
          runs, saving>>

\* the worker pool of analyze_features
pool == <<C_futures, C_results, trial_scores>>

\* the inputs and locals of one loocv_feature call
loocv == <<Y_pos, log_prob, f_concepts, loo_scores>>

\* the concurrent runs of load_embeddings
race == <<runs, saving>>

\* what main computes after the catalog and the embeddings are loaded
estimates == <<feature_data, best_C, out, summaries, fcat_med>>

----------------------------------------------------------------------------
(* Bounds of the model *)

\* the longest raw embedding file, in lines
MaxLines == 2

\* the longest feature catalog file, in lines
MaxRows == 3

\* the features of the largest catalog the estimator is run on
NumFeatures == 12

\* the concepts of the largest vocabulary the estimator is run on
NumConcepts == 10

\* F1 scores are the multiples k / MaxScore of 1 / MaxScore, written k
MaxScore == 2

----------------------------------------------------------------------------
(* Text *)

\* a file that does not exist, and a file holding data
NoFile == [exists |-> FALSE, data |-> <<>>]
File(data) == [exists |-> TRUE, data |-> data]

\* Python's whitespace, as far as the model's alphabet goes
IsSpace(c) == c \in {" ", "\n", "\t"}

\* code points of the model's alphabet (Python compares str by code point)
Ord(c) ==
    CASE c = "\t" -> 9
      [] c = "\n" -> 10
      [] c = " " -> 32
      [] c = "1" -> 49
      [] c = "2" -> 50
      [] c = "a" -> 97
      [] c = "b" -> 98
      [] c = "c" -> 99
      [] c = "_" -> 95
      [] c = "t" -> 116
      [] c = "x" -> 120

SetMin(S) == CHOOSE m \in S : \A n \in S : m <= n
SetMax(S) == CHOOSE m \in S : \A n \in S : n <= m

\* str.strip()
Strip(s) ==
    LET keep == {i \in 1..Len(s) : ~IsSpace(s[i])}
    IN  IF keep = {} THEN <<>> ELSE SubSeq(s, SetMin(keep), SetMax(keep))

\* str.split(): the maximal runs of non-whitespace
RECURSIVE Split(_)
Split(s) ==
    IF s = <<>> THEN <<>>
    ELSE IF IsSpace(Head(s)) THEN Split(Tail(s))
    ELSE LET sp == {i \in 1..Len(s) : IsSpace(s[i])}
             n  == IF sp = {} THEN Len(s) ELSE SetMin(sp) - 1
         IN  <<SubSeq(s, 1, n)>> \o Split(SubSeq(s, n + 1, Len(s)))

\* str.split(sep): the pieces between the separators, empty ones kept
RECURSIVE SplitOn(_, _)
SplitOn(s, sep) ==
    LET at == {i \in 1..Len(s) : s[i] = sep}
    IN  IF at = {} THEN <<s>>
        ELSE <<SubSeq(s, 1, SetMin(at) - 1)>>
                 \o SplitOn(SubSeq(s, SetMin(at) + 1, Len(s)), sep)

\* "\n".join(words)
RECURSIVE JoinLines(_)
JoinLines(words) ==
    IF words = <<>> THEN <<>>
    ELSE IF Len(words) = 1 THEN words[1]
    ELSE words[1] \o <<"\n">> \o JoinLines(Tail(words))

\* for line in f: the text cut after every "\n"
RECURSIVE FileLines(_)
FileLines(text) ==
    IF text = <<>> THEN <<>>
    ELSE LET nl == {i \in 1..Len(text) : text[i] = "\n"}
         IN  IF nl = {} THEN <<text>>
             ELSE <<SubSeq(text, 1, SetMin(nl))>>
                      \o FileLines(SubSeq(text, SetMin(nl) + 1, Len(text)))

\* str < str
RECURSIVE StrLess(_, _)
StrLess(s, t) ==
    IF t = <<>> THEN FALSE
    ELSE IF s = <<>> THEN TRUE
    ELSE IF Ord(Head(s)) # Ord(Head(t)) THEN Ord(Head(s)) < Ord(Head(t))
    ELSE StrLess(Tail(s), Tail(t))

\* whether float(x) accepts the token (the digit strings of the model's alphabet)
IsFloat(tok) == tok # <<>> /\ \A i \in 1..Len(tok) : tok[i] \in {"1", "2"}

\* float(x) of a token it accepts
RECURSIVE ParseFloat(_)
ParseFloat(tok) ==
    IF Len(tok) = 1 THEN Ord(tok[1]) - 48
    ELSE 10 * ParseFloat(SubSeq(tok, 1, Len(tok) - 1)) + (Ord(tok[Len(tok)]) - 48)

----------------------------------------------------------------------------
(* load_embeddings *)

\* sorted(pairs, key=lambda x: x[0]): a stable sort by the word
RECURSIVE InsertPair(_, _)
InsertPair(sorted, p) ==
    IF sorted = <<>> THEN <<p>>
    ELSE IF StrLess(p[1], Head(sorted)[1]) THEN <<p>> \o sorted
    ELSE <<Head(sorted)>> \o InsertPair(Tail(sorted), p)

RECURSIVE SortedByWord(_)
SortedByWord(pairs) ==
    IF pairs = <<>> THEN <<>>
    ELSE InsertPair(SortedByWord(SubSeq(pairs, 1, Len(pairs) - 1)), pairs[Len(pairs)])

\* the scan loop over the raw file: the (word, vector) pairs kept, in file
\* order, or the exception the loop raises
RECURSIVE ScanGlove(_, _, _)
ScanGlove(lines, cs, acc) ==
    IF lines = <<>> THEN [raised |-> "", pairs |-> acc]
    ELSE LET fields == Split(Strip(Head(lines)))
         IN  IF fields = <<>> THEN [raised |-> "IndexError", pairs |-> <<>>]
             ELSE IF fields[1] \notin cs THEN ScanGlove(Tail(lines), cs, acc)
             ELSE IF \E i \in 2..Len(fields) : ~IsFloat(fields[i])
             THEN [raised |-> "ValueError", pairs |-> <<>>]
             ELSE LET vec == [i \in 1..(Len(fields) - 1) |-> ParseFloat(fields[i + 1])]
                  IN  ScanGlove(Tail(lines), cs, Append(acc, <<fields[1], vec>>))

\* the text written to VOCAB
VocabFileText(words) == JoinLines(words)

\* the vocabulary file read without stripping the line ends
ReadVocabFile_NoStrip(text) == FileLines(text)

\* the vocabulary read back from VOCAB
ReadVocabFile(text) == [i \in 1..Len(FileLines(text)) |-> Strip(FileLines(text)[i])]

\* the cache-hit path without its size assertion
SizesAgree_Unchecked(emb, voc) == TRUE

\* the assertion of the cache-hit path
SizesAgree(emb, voc) == Len(emb) = Len(voc)

\* the vocabulary the cache-miss path returns and writes
MissVocab(pairs) == [i \in 1..Len(pairs) |-> SortedByWord(pairs)[i][1]]

\* the matrix the cache-miss path returns and writes
MissEmbeddings(pairs) == [i \in 1..Len(pairs) |-> SortedByWord(pairs)[i][2]]

\* the cache-hit branch
LoadHit ==
    /\ embFile[PIVOT'].exists
    /\ embeddings' = embFile[PIVOT'].data
    /\ IF ~vocabFile.exists
       THEN /\ vocab' = <<>>
            /\ pc' = "AssertionError"
       ELSE /\ vocab' = ReadVocabFile(vocabFile.data)
            /\ pc' = IF SizesAgree(embeddings', vocab') THEN "hit" ELSE "AssertionError"
    /\ UNCHANGED <<embFile, vocabFile, lastBuild>>

\* the cache-miss branch
LoadMiss ==
    /\ ~embFile[PIVOT'].exists
    /\ LET scan == ScanGlove(glove[PIVOT'], concepts', <<>>)
       IN  IF scan.raised # ""
           THEN /\ pc' = scan.raised
                /\ vocab' = <<>>
                /\ embeddings' = <<>>
                /\ UNCHANGED <<embFile, vocabFile, lastBuild>>
           ELSE /\ vocab' = MissVocab(scan.pairs)
                /\ embeddings' = MissEmbeddings(scan.pairs)
                /\ embFile' = [embFile EXCEPT ![PIVOT'] = File(embeddings')]
                /\ vocabFile' = File(VocabFileText(vocab'))
                /\ pc' = "miss"
                /\ lastBuild' = [built |-> TRUE, pivot |-> PIVOT', concepts |-> concepts',
                                 vocab |-> vocab', embeddings |-> embeddings']

\* one run of load_embeddings with the module constant PIVOT set to p
load_embeddings(p, cs) ==
    /\ PIVOT' = p
    /\ concepts' = cs
    /\ LoadHit \/ LoadMiss
    /\ UNCHANGED <<glove, catalog, features, estimates, pool, loocv, race>>

----------------------------------------------------------------------------
(* The runs of the embedding cache *)

\* the pivot sources of the runs: two of the three values PIVOT can be set to
\* (the two whose raw sources are GloVe files)
Pivots == {"wikigiga", "cc"}

\* the concept names of the runs
Words == {<<"a">>, <<"b">>}

\* lines of a raw embedding file: word, then the vector (of one dimension)
GloveLines ==
    { <<"b", " ", "2", "\n">>,
      <<"a", " ", "1", "\n">>,
      <<" ", "a", " ", " ", "1", "2", " ", "\n">> }

\* no task submitted yet
NoPool ==
    /\ C_futures = <<>>
    /\ C_results = <<>>
    /\ trial_scores = <<>>

\* no loocv_feature call
NoLoocv ==
    /\ Y_pos = {}
    /\ log_prob = <<>>
    /\ f_concepts = <<>>
    /\ loo_scores = <<>>

\* no concurrent run
NoRace ==
    /\ runs = <<>>
    /\ saving = {}

\* the state before analyze_features and the aggregation have run
NoEstimates ==
    /\ feature_data = <<>>
    /\ best_C = 0
    /\ out = <<>>
    /\ summaries = <<>>
    /\ fcat_med = <<>>
    /\ NoPool
    /\ NoLoocv
    /\ NoRace

RECURSIVE SeqsUpTo(_, _)
SeqsUpTo(S, n) ==
    IF n = 0 THEN {<<>>}
    ELSE LET shorter == SeqsUpTo(S, n - 1)
         IN  shorter \cup {Append(s, x) : s \in shorter, x \in S}

GloveFiles == SeqsUpTo(GloveLines, MaxLines)

InitCache ==
    /\ PIVOT = "cc"
    /\ glove \in [Pivots -> GloveFiles]
    /\ embFile = [p \in Pivots |-> NoFile]
    /\ vocabFile = NoFile
    /\ catalog = <<>>
    /\ features = <<>>
    /\ concepts = {}
    /\ vocab = <<>>
    /\ embeddings = <<>>
    /\ pc = "start"
    /\ NoEstimates
    /\ lastBuild = [built |-> FALSE, pivot |-> "cc", concepts |-> {},
                    vocab |-> <<>>, embeddings |-> <<>>]

NextCache == \E p \in Pivots, cs \in SUBSET Words : load_embeddings(p, cs)

SpecCache == InitCache /\ [][NextCache]_vars

----------------------------------------------------------------------------
(* load_features_concepts *)

\* the header token and the concept the loader ignores
HeaderToken == <<"C", "o", "n", "c", "e", "p", "t">>
IgnoredConcept == <<"d", "u", "n", "e", "b", "u", "g", "g", "y">>

\* the skip test without the ignored concept
IsSkippedRow_HeaderOnly(concept_name) == concept_name = HeaderToken

\* the row is the header row or the row to ignore
IsSkippedRow(concept_name) ==
    concept_name = HeaderToken \/ concept_name = IgnoredConcept

\* Feature(feature_name, set(), *fields[2:6], fields[10])
NewFeature(fields) ==
    [name |-> fields[2], concepts |-> {}, wb_label |-> fields[3], wb_maj |-> fields[4],
     wb_min |-> fields[5], br_label |-> fields[6], disting |-> fields[11]]

\* features[feature_name].concepts.add(concept_name)
AddConcept(fs, feature_name, concept_name) ==
    [fs EXCEPT ![feature_name].concepts = @ \cup {concept_name}]

\* the loop over the catalog's lines: the features and concepts collected, or
\* the exception a malformed row raises
RECURSIVE LoadRows(_, _, _)
LoadRows(lines, fs, cs) ==
    IF lines = <<>> THEN [raised |-> "", features |-> fs, concepts |-> cs]
    ELSE LET fields == SplitOn(Strip(Head(lines)), "\t")
         IN  IF Len(fields) < 2
             THEN [raised |-> "ValueError", features |-> fs, concepts |-> cs]
             ELSE IF IsSkippedRow(fields[1]) THEN LoadRows(Tail(lines), fs, cs)
             ELSE IF fields[2] \notin DOMAIN fs /\ Len(fields) < 11
             THEN [raised |-> "IndexError", features |-> fs, concepts |-> cs]
             ELSE LET known == IF fields[2] \in DOMAIN fs THEN fs
                               ELSE (fields[2] :> NewFeature(fields)) @@ fs
                  IN  LoadRows(Tail(lines), AddConcept(known, fields[2], fields[1]),
                               cs \cup {fields[1]})

\* one run of load_features_concepts
load_features_concepts ==
    /\ pc = "start"
    /\ LET loaded == LoadRows(catalog, <<>>, {})
       IN  IF loaded.raised # ""
           THEN /\ pc' = loaded.raised
                /\ UNCHANGED <<features, concepts>>
           ELSE /\ features' = loaded.features
                /\ concepts' = loaded.concepts
                /\ pc' = "catalog_loaded"
    /\ UNCHANGED <<PIVOT, glove, embFile, vocabFile, catalog, vocab, embeddings,
                   lastBuild, estimates, pool, loocv, race>>

----------------------------------------------------------------------------
(* The catalog files of the model *)

\* a catalog line: the fields joined by tabs
RECURSIVE TabJoin(_)
TabJoin(fields) ==
    IF Len(fields) = 1 THEN fields[1] \o <<"\n">>
    ELSE fields[1] \o <<"\t">> \o TabJoin(Tail(fields))

\* a full row of the catalog: concept, feature, four labels, four statistics, disting
CatalogRow(concept_name, feature_name, br_label, disting) ==
    TabJoin(<<concept_name, feature_name, <<"x">>, <<"x">>, <<"x">>, br_label,
              <<"1">>, <<"1">>, <<"1">>, <<"1">>, disting>>)

CatalogLines ==
    { CatalogRow(HeaderToken, <<"x">>, <<"x">>, <<"x">>),
      CatalogRow(IgnoredConcept, <<"a", "_", "x">>, <<"t">>, <<"1">>),
      CatalogRow(<<"a">>, <<"a", "_", "x">>, <<"t">>, <<"1">>),
      CatalogRow(<<"b">>, <<"a", "_", "x">>, <<"t">>, <<"1">>),
      CatalogRow(<<"a">>, <<"b", "_", "x">>, <<"b">>, <<>>),
      TabJoin(<<<<"b">>, <<"b", "_", "x">>>>) }

InitCatalog ==
    /\ PIVOT = "cc"
    /\ glove = [p \in Pivots |-> <<>>]
    /\ embFile = [p \in Pivots |-> NoFile]
    /\ vocabFile = NoFile
    /\ catalog \in SeqsUpTo(CatalogLines, MaxRows)
    /\ features = <<>>
    /\ concepts = {}
    /\ vocab = <<>>
    /\ embeddings = <<>>
    /\ pc = "start"
    /\ NoEstimates
    /\ lastBuild = [built |-> FALSE, pivot |-> "cc", concepts |-> {},
                    vocab |-> <<>>, embeddings |-> <<>>]

NextCatalog == load_features_concepts

SpecCatalog == InitCatalog /\ [][NextCatalog]_vars

----------------------------------------------------------------------------
(* analyze_features *)

\* a feature needs this many positive concepts in the vocabulary to be fitted
MinPositives == 5

\* the number of features sampled for each candidate C
SampleSize == 10

\* the absent score, None (F1 scores are never negative)
NoScore == -1

\* the candidate values of C, in units of 10^-5
C_choices == {10 ^ e : e \in 0..5} \cup {5 * (10 ^ e) : e \in 0..5}

\* sorted(features.keys())
RECURSIVE SortedNames(_)
SortedNames(S) ==
    IF S = {} THEN <<>>
    ELSE LET m == CHOOSE x \in S : \A y \in S \ {x} : StrLess(x, y)
         IN  <<m>> \o SortedNames(S \ {m})

\* {w: i for i, w in enumerate(vocab)}: the last position of each word
\* (positions count from 1 here)
Word2Idx(voc) ==
    [w \in {voc[i] : i \in DOMAIN voc} |-> SetMax({i \in DOMAIN voc : voc[i] = w})]

\* the rows of Y
YRows(w2i) == Cardinality(DOMAIN w2i)

\* [word2idx[c] for c in feature.concepts if c in word2idx]
FeaturePositives(feature, w2i) == {w2i[c] : c \in feature.concepts \cap DOMAIN w2i}

\* the test for too few positives, off by one
IsFitted_OffByOne(feature, w2i) ==
    Cardinality(FeaturePositives(feature, w2i)) > MinPositives

\* the feature's column of Y is filled in (the feature is not skipped)
IsFitted(feature, w2i) == Cardinality(FeaturePositives(feature, w2i)) >= MinPositives

\* Y.sum(axis=0) at the feature's column
Counts(feature, w2i) ==
    IF IsFitted(feature, w2i) THEN Cardinality(FeaturePositives(feature, w2i)) ELSE 0

\* Y.sum(axis=0).nonzero()[0]
NonzeroFeatures(fs, w2i) == {f \in DOMAIN fs : Counts(fs[f], w2i) # 0}

\* np.random.choice(len(nonzero_features), replace=False, size=10) raises
\* when the population is smaller than the sample
CanSample(population) == population >= SampleSize

\* the in-sample F1 scores the fitted classifiers get: the library's numbers
\* are not computed here, they are drawn from these assignments of a score
\* to every feature position
F1Outcomes(n) ==
    {[i \in 1..n |-> (a * i + b) % (MaxScore + 1)] : a \in 0..1, b \in 0..MaxScore}

\* ret_metrics at one feature: None for an all-zero column; a column of ones
\* only is predicted exactly (F1 = 1); the library's score otherwise
Metric(count, rows, f1) ==
    IF count = 0 THEN NoScore
    ELSE IF count = rows THEN MaxScore
    ELSE f1

analyze_features ==
    /\ pc = "loaded"
    /\ LET w2i == Word2Idx(vocab)
           feature_names == SortedNames(DOMAIN features)
       IN  IF \E f \in DOMAIN features :
                  /\ IsFitted(features[f], w2i)
                  /\ \E i \in FeaturePositives(features[f], w2i) : i > YRows(w2i)
           THEN /\ pc' = "IndexError"
                /\ UNCHANGED <<feature_data, best_C>>
           ELSE IF ~CanSample(Cardinality(NonzeroFeatures(features, w2i)))
           THEN /\ pc' = "ValueError (sample larger than population)"
                /\ UNCHANGED <<feature_data, best_C>>
           ELSE IF Len(embeddings) # YRows(w2i)
           THEN /\ pc' = "ValueError (inconsistent numbers of samples)"
                /\ UNCHANGED <<feature_data, best_C>>
           ELSE \E C \in C_choices, f1 \in F1Outcomes(Len(feature_names)) :
                    /\ best_C' = C
                    /\ feature_data' =
                           [i \in 1..Len(feature_names) |->
                               <<feature_names[i],
                                 Counts(features[feature_names[i]], w2i),
                                 Metric(Counts(features[feature_names[i]], w2i),
                                        YRows(w2i), f1[i])>>]
                    /\ pc' = "analyzed"
    /\ UNCHANGED <<PIVOT, glove, embFile, vocabFile, catalog, features, concepts,
                   vocab, embeddings, out, summaries, fcat_med, lastBuild, pool,
                   loocv, race>>

----------------------------------------------------------------------------
(* main: the report and the aggregation *)

\* filter(lambda f: f[2] is not None, feature_data)
IsScored(f) == f[3] # NoScore

\* sorted(..., key=lambda f: f[2]): a stable sort by the score
RECURSIVE InsertByScore(_, _)
InsertByScore(sorted, f) ==
    IF sorted = <<>> THEN <<f>>
    ELSE IF f[3] < Head(sorted)[3] THEN <<f>> \o sorted
    ELSE <<Head(sorted)>> \o InsertByScore(Tail(sorted), f)

RECURSIVE SortedByScore(_)
SortedByScore(fd) ==
    IF fd = <<>> THEN <<>>
    ELSE InsertByScore(SortedByScore(SubSeq(fd, 1, Len(fd) - 1)), fd[Len(fd)])

\* the grouping functions: the category label, and name.split("_")[0]
GroupOf(key, name, fs) ==
    IF key = "br_label" THEN fs[name].br_label ELSE SplitOn(name, "_")[1]

\* a group that keeps its last item only
AppendToGroup_Overwrite(groups, group, item) ==
    IF \E i \in DOMAIN groups : groups[i][1] = group
    THEN [i \in DOMAIN groups |->
             IF groups[i][1] = group THEN <<group, <<item>>>> ELSE groups[i]]
    ELSE Append(groups, <<group, <<item>>>>)

\* groups[key][group].append((score, n_entries)), groups kept in the order
\* they first appear
AppendToGroup(groups, group, item) ==
    IF \E i \in DOMAIN groups : groups[i][1] = group
    THEN [i \in DOMAIN groups |->
             IF groups[i][1] = group THEN <<group, Append(groups[i][2], item)>>
             ELSE groups[i]]
    ELSE Append(groups, <<group, <<item>>>>)

RECURSIVE GroupsOf(_, _, _)
GroupsOf(key, fd, fs) ==
    IF fd = <<>> THEN <<>>
    ELSE LET f == fd[Len(fd)]
         IN  AppendToGroup(GroupsOf(key, SubSeq(fd, 1, Len(fd) - 1), fs),
                           GroupOf(key, f[1], fs), <<f[3], f[2]>>)

RECURSIVE SumOf(_)
SumOf(xs) == IF xs = <<>> THEN 0 ELSE Head(xs) + SumOf(Tail(xs))

RECURSIVE InsertNum(_, _)
InsertNum(sorted, x) ==
    IF sorted = <<>> THEN <<x>>
    ELSE IF x < Head(sorted) THEN <<x>> \o sorted
    ELSE <<Head(sorted)>> \o InsertNum(Tail(sorted), x)

RECURSIVE SortedNums(_)
SortedNums(xs) == IF xs = <<>> THEN <<>> ELSE InsertNum(SortedNums(Tail(xs)), Head(xs))

\* twice np.percentile(scores, 50): the middle score, or the sum of the two
\* middle scores
Median2(scores) ==
    LET srt == SortedNums(scores)
        n == Len(srt)
    IN  IF n % 2 = 1 THEN 2 * srt[(n + 1) \div 2]
        ELSE srt[n \div 2] + srt[(n \div 2) + 1]

\* summary[name]: the count, the percentiles of the scores (the median is
\* kept doubled) and the sums the two means are taken from
Summary(data) ==
    LET scores == [i \in 1..Len(data) |-> data[i][1]]
        n_entries == [i \in 1..Len(data) |-> data[i][2]]
    IN  [n |-> Len(data), sum_scores |-> SumOf(scores), min |-> SortedNums(scores)[1],
         med2 |-> Median2(scores), max |-> SortedNums(scores)[Len(scores)],
         sum_entries |-> SumOf(n_entries)]

\* sorted(summary.items(), key=lambda x: x[1][2][1]): a stable sort by the median
RECURSIVE InsertByMedian(_, _)
InsertByMedian(sorted, row) ==
    IF sorted = <<>> THEN <<row>>
    ELSE IF row[2].med2 < Head(sorted)[2].med2 THEN <<row>> \o sorted
    ELSE <<Head(sorted)>> \o InsertByMedian(Tail(sorted), row)

RECURSIVE SortedByMedian(_)
SortedByMedian(rows) ==
    IF rows = <<>> THEN <<>>
    ELSE InsertByMedian(SortedByMedian(SubSeq(rows, 1, Len(rows) - 1)), rows[Len(rows)])

\* the summary table of one grouping key, in the order it is written
SummaryRows(key, fd, fs) ==
    LET groups == GroupsOf(key, fd, fs)
    IN  SortedByMedian([i \in DOMAIN groups |-> <<groups[i][1], Summary(groups[i][2])>>])

\* fcat_med[label_group] = pcts[1], for every row written (the median doubled)
RECURSIVE RecordMedians(_, _)
RecordMedians(table, rows) ==
    IF rows = <<>> THEN table
    ELSE RecordMedians((Head(rows)[1] :> Head(rows)[2].med2) @@ table, Tail(rows))

\* the rest of main up to the end of the report
write_report ==
    /\ pc = "analyzed"
    /\ LET fd == SortedByScore(SelectSeq(feature_data, IsScored))
           by_label == SummaryRows("br_label", fd, features)
           by_word == SummaryRows("first_word", fd, features)
       IN  /\ feature_data' = fd
           /\ out' = [i \in DOMAIN fd |->
                         <<fd[i][1], features[fd[i][1]].br_label, fd[i][2], fd[i][3]>>]
           /\ summaries' = [br_label |-> by_label, first_word |-> by_word]
           /\ fcat_med' = RecordMedians(RecordMedians(<<>>, by_label), by_word)
    /\ pc' = "reported"
    /\ UNCHANGED <<PIVOT, glove, embFile, vocabFile, catalog, features, concepts,
                   vocab, embeddings, best_C, lastBuild, pool, loocv, race>>

----------------------------------------------------------------------------
(* The catalogs and vocabularies the estimator is run on *)

\* feature names: a first word, "_", and as many "x" as the feature's number
FirstWords == << <<"a">>, <<"b">>, <<"c">> >>
FeatureName(i) == FirstWords[((i - 1) % 3) + 1] \o <<"_">> \o [j \in 1..i |-> "x"]

\* category labels; the second is also a first word of feature names
Labels == << <<"t">>, <<"b">> >>

\* concepts are numbered in the order of their names; the concept sets of the
\* features 1 and 2 of a catalog are drawn from these: every concept, too few
\* concepts, a concept without an embedding, just enough concepts
ProbeSets ==
    { 1..NumConcepts, 1..(MinPositives - 1), {NumConcepts + 1}, 1..MinPositives }

\* the concept sets of the other features: MinPositives or MinPositives + 1
\* concepts in a row
Window(i) == {((i + j) % NumConcepts) + 1 : j \in 0..(MinPositives - 1 + (i % 2))}

ToyFeature(i, cs, shift) ==
    [name |-> FeatureName(i), concepts |-> cs, wb_label |-> <<"x">>, wb_maj |-> <<"x">>,
     wb_min |-> <<"x">>, br_label |-> Labels[((i + shift) % 2) + 1], disting |-> <<"1">>]

ToyCatalog(n, probe1, probe2, shift) ==
    [name \in {FeatureName(i) : i \in 1..n} |->
        LET i == CHOOSE k \in 1..n : FeatureName(k) = name
        IN  ToyFeature(i, IF i = 1 THEN probe1 ELSE IF i = 2 THEN probe2 ELSE Window(i),
                       shift)]

\* vocabularies load_embeddings returns: every concept, too few concepts, and
\* one with a concept on two lines of the raw source
ToyVocabs ==
    { [i \in 1..NumConcepts |-> i],
      [i \in 1..(MinPositives - 1) |-> i],
      <<1>> \o [i \in 1..NumConcepts |-> i] }

InitMain ==
    /\ PIVOT = "cc"
    /\ glove = [p \in Pivots |-> <<>>]
    /\ embFile = [p \in Pivots |-> NoFile]
    /\ vocabFile = NoFile
    /\ catalog = <<>>
    /\ \E n \in {3, NumFeatures}, probe1 \in ProbeSets, probe2 \in ProbeSets, shift \in 0..1 :
           features = ToyCatalog(n, probe1, probe2, shift)
    /\ concepts = UNION {features[f].concepts : f \in DOMAIN features}
    /\ vocab \in ToyVocabs
    /\ embeddings = [i \in 1..Len(vocab) |-> <<vocab[i]>>]
    /\ NoEstimates
    /\ pc = "loaded"
    /\ lastBuild = [built |-> FALSE, pivot |-> "cc", concepts |-> {},
                    vocab |-> <<>>, embeddings |-> <<>>]

NextMain == analyze_features \/ write_report

SpecMain == InitMain /\ [][NextMain]_vars

----------------------------------------------------------------------------
(* Properties of the embedding cache *)

\* load_embeddings returned (by either path)
Returned == pc \in {"hit", "miss"}

\* what a build from scratch returns for pivot p and target concepts cs
FreshBuild(p, cs) ==
    LET scan == ScanGlove(glove[p], cs, <<>>)
    IN  <<MissVocab(scan.pairs), MissEmbeddings(scan.pairs)>>

\* C1: a run that completes returns the vocabulary and the matrix that a fresh
\* build from its own pivot source and its own target concept set returns.
C1_ReturnsOwnBuild == Returned => <<vocab, embeddings>> = FreshBuild(PIVOT, concepts)

\* C2: (a) a cache hit for the pivot and the target set of the last build
\* returns the vocabulary and the matrix that build returned; (b) a build
\* from the same raw source and target set as the last build returns what
\* that build returned.
C2_HitEqualsMiss ==
    /\ [](pc = "hit" /\ lastBuild.built /\ lastBuild.pivot = PIVOT
              /\ lastBuild.concepts = concepts
            => vocab = lastBuild.vocab /\ embeddings = lastBuild.embeddings)
    /\ [][pc' = "miss" /\ lastBuild.built /\ glove[lastBuild.pivot] = glove[PIVOT']
              /\ lastBuild.concepts = concepts'
            => vocab' = lastBuild.vocab /\ embeddings' = lastBuild.embeddings]_vars
    /\ [][pc = "miss" /\ PIVOT' = PIVOT /\ concepts' = concepts
            => pc' = "hit" /\ vocab' = vocab /\ embeddings' = embeddings]_vars

\* a hit that follows the build for the same pivot and target set, with a
\* vocabulary of two entries read back from the vocabulary file
C2_Witness ==
    /\ pc = "hit"
    /\ lastBuild.built /\ lastBuild.pivot = PIVOT /\ lastBuild.concepts = concepts
    /\ Len(vocab) >= 2
    /\ vocab[1] # vocab[2]

\* C3: whenever load_embeddings returns, the vocabulary is as long as the
\* matrix has rows; on the cache-hit path a stored matrix whose row count
\* differs from the stored vocabulary's line count ends the run with an
\* assertion failure.
C3_SizesAgree ==
    /\ [](Returned => Len(vocab) = Len(embeddings))
    /\ [][embFile[PIVOT'].exists /\ vocabFile.exists
              /\ Len(embFile[PIVOT'].data) # Len(ReadVocabFile(vocabFile.data))
            => pc' = "AssertionError"]_vars

\* a cache hit on a stored matrix and a stored vocabulary of different sizes
C3_Witness ==
    /\ pc = "AssertionError"
    /\ vocabFile.exists
    /\ embeddings = embFile[PIVOT].data
    /\ vocab = ReadVocabFile(vocabFile.data)
    /\ Len(embeddings) # Len(vocab)

\* C4: the concept list load_embeddings builds is sorted by concept name and
\* holds no concept twice, one matrix row per entry.
C4_SortedDeduplicated ==
    pc = "miss" =>
        /\ Len(vocab) = Len(embeddings)
        /\ \A i \in 1..(Len(vocab) - 1) : StrLess(vocab[i], vocab[i + 1])

----------------------------------------------------------------------------
(* Properties of the catalog loader *)

\* the first two fields of the catalog's lines that have them
RowHeads ==
    {SubSeq(SplitOn(Strip(catalog[i]), "\t"), 1, 2) :
        i \in {j \in 1..Len(catalog) : Len(SplitOn(Strip(catalog[j]), "\t")) >= 2}}

\* C10: the concept set returned is the union of the concept sets of the
\* returned features, no returned feature has an empty concept set, and rows
\* of the header token or of the ignored concept add no feature and no concept.
C10_ConceptsAreUnion ==
    pc = "catalog_loaded" =>
        /\ concepts = UNION {features[f].concepts : f \in DOMAIN features}
        /\ \A f \in DOMAIN features : features[f].concepts # {}
        /\ HeaderToken \notin concepts
        /\ IgnoredConcept \notin concepts
        /\ \A f \in DOMAIN features :
               \E h \in RowHeads : h[2] = f /\ h[1] \notin {HeaderToken, IgnoredConcept}

\* a catalog with a row of the ignored concept and a feature of two concepts
C10_Witness ==
    /\ pc = "catalog_loaded"
    /\ \E i \in 1..Len(catalog) : SplitOn(Strip(catalog[i]), "\t")[1] = IgnoredConcept
    /\ \E f \in DOMAIN features : Cardinality(features[f].concepts) = 2

----------------------------------------------------------------------------
(* Properties of the estimator and of the aggregation *)

\* the concepts that have an embedding
VocabSet == {vocab[i] : i \in DOMAIN vocab}

\* the feature's positive concepts present in the vocabulary
PositivesInVocab(f) == features[f].concepts \cap VocabSet

\* the features with at least 5 positive concepts present in the vocabulary
Qualifying == {f \in DOMAIN features : Cardinality(PositivesInVocab(f)) >= 5}

\* an exception ended the run
Raised == pc \notin {"loaded", "analyzed", "reported"}

C6_DegenerateFeatureSkipped ==
    pc = "analyzed" =>
        \A i \in DOMAIN feature_data :
            PositivesInVocab(feature_data[i][1]) \in {VocabSet, {}}
                => feature_data[i][3] = NoScore

\* the catalog of the end-to-end scenario: 10 concepts, 3 features of at least
\* 5 concepts each, and an embedding for each of the 10 concepts
ToyScenario ==
    /\ Cardinality(DOMAIN features) = 3
    /\ \A f \in DOMAIN features : Cardinality(features[f].concepts) >= 5
    /\ Cardinality(concepts) = 10
    /\ VocabSet = concepts
    /\ Len(vocab) = 10

\* C7: on the end-to-end scenario main does not raise, and its report has
\* exactly 3 feature rows and a group-summary table that is not empty.
C7_ToyPipelineReports ==
    ToyScenario =>
        /\ ~Raised
        /\ pc = "reported" =>
               /\ Len(out) = 3
               /\ Len(summaries.br_label) > 0 \/ Len(summaries.first_word) > 0

RECURSIVE SumOfCounts(_)
SumOfCounts(rows) == IF rows = <<>> THEN 0 ELSE Head(rows)[2].n + SumOfCounts(Tail(rows))

\* C8: for each grouping key the group counts add up to the number of scored
\* features: no group is listed twice, and a group's count is the number of
\* scored features of that group.
C8_GroupCountsAddUp ==
    pc = "reported" =>
        \A key \in {"br_label", "first_word"} :
            LET rows == summaries[key]
            IN  /\ SumOfCounts(rows) = Cardinality(Qualifying)
                /\ \A i, j \in DOMAIN rows : rows[i][1] = rows[j][1] => i = j
                /\ \A i \in DOMAIN rows :
                       rows[i][2].n =
                           Cardinality({f \in Qualifying : GroupOf(key, f, features) = rows[i][1]})

\* a report over scored and unscored features with a group of several features
C8_Witness ==
    /\ pc = "reported"
    /\ Qualifying # DOMAIN features
    /\ Len(summaries.first_word) >= 3
    /\ \E i \in DOMAIN summaries.br_label : summaries.br_label[i][2].n >= 2

\* the scores of the scored features of a category
RECURSIVE ScoresOfLabel(_, _)
ScoresOfLabel(rows, label) ==
    IF rows = <<>> THEN <<>>
    ELSE IF Head(rows)[2] = label THEN <<Head(rows)[4]>> \o ScoresOfLabel(Tail(rows), label)
    ELSE ScoresOfLabel(Tail(rows), label)

\* C9: after the aggregation the keys of fcat_med are the category labels of
\* the scored features, each with the (doubled) median score of its category.
C9_FcatMedIsPerCategory ==
    pc = "reported" =>
        /\ DOMAIN fcat_med = {features[f].br_label : f \in Qualifying}
        /\ \A label \in DOMAIN fcat_med :
               fcat_med[label] = Median2(ScoresOfLabel(out, label))


(***************************************************************************)
(* analyze_features: the search for C (fan-out to the worker pool, fan-in  *)
(* by as_completed, choice of best_C)                                      *)
(***************************************************************************)

\* the candidate values of C that get tasks in the model (12 in the code)
FanCs == 2

\* the features sampled per candidate (10 in the code)
FanFeatures == 2

\* the trials of one task (n_concept_samples is 5 in the code)
MaxTrials == 2

\* the largest absolute value of a trial score
MaxMargin == 1

\* C_choices in the order the code builds the list, in units of 10^-5
C_list == [i \in 1..12 |-> IF i <= 6 THEN 10 ^ (i - 1) ELSE 5 * (10 ^ (i - 7))]

\* the position of a candidate in C_choices
IndexOfC(C) == CHOOSE i \in 1..12 : C_list[i] = C

\* the values a trial score takes in the model
ScoreValues == (0 - MaxMargin)..MaxMargin

\* the score lists the workers return: one non-empty list per (C, feature)
TaskScores(seed, Cs, fs) ==
    [t \in Cs \X fs |->
        [k \in 1..(1 + ((IndexOfC(t[1]) + t[2] + seed) % MaxTrials)) |->
            ((2 * IndexOfC(t[1]) + t[2] + seed + k) % (2 * MaxMargin + 1))
                - MaxMargin]]

\* what loocv_feature returns to the coordinator: its own C and its scores
loocv_result(C, f_idx) == [C |-> C, scores |-> trial_scores[<<C, f_idx>>]]

\* C_results[C] = scores, which drops what was merged before
Extend_Assign(results, C, scores) ==
    IF C \in DOMAIN results
    THEN [results EXCEPT ![C] = scores]
    ELSE results @@ (C :> scores)

\* C_results[C].extend(scores) on a defaultdict(list)
Extend(results, C, scores) ==
    IF C \in DOMAIN results
    THEN [results EXCEPT ![C] = @ \o scores]
    ELSE results @@ (C :> scores)

\* the candidates that get tasks, and the features sampled for each
FanC_choices == SubSeq(C_list, 1, FanCs)

FanSample == [i \in 1..FanFeatures |-> i]

\* the futures submitted for the candidates Cs and the sampled features fs,
\* in submission order
Submitted(Cs, fs) ==
    [i \in 1..(Len(Cs) * Len(fs)) |->
        [C |-> Cs[((i - 1) \div Len(fs)) + 1],
         f_idx |-> fs[((i - 1) % Len(fs)) + 1],
         state |-> "pending"]]

\* np.mean as a fraction
Mean(xs) == [num |-> SumOf(xs), den |-> Len(xs)]

\* the sort key (np.mean(scores), -C)
RowOf_NoNegation(C, xs) == [mean |-> Mean(xs), negC |-> C]

RowOf(C, xs) == [mean |-> Mean(xs), negC |-> 0 - C]

\* tuple comparison of two sort keys
RowLess(a, b) ==
    LET l == a.mean.num * b.mean.den
        r == b.mean.num * a.mean.den
    IN l < r \/ (l = r /\ a.negC < b.negC)

RECURSIVE InsertDescending(_, _)
InsertDescending(r, rows) ==
    IF rows = <<>> THEN <<r>>
    ELSE IF RowLess(r, Head(rows))
         THEN <<Head(rows)>> \o InsertDescending(r, Tail(rows))
         ELSE <<r>> \o rows

RECURSIVE SortedDescending(_)
SortedDescending(rows) ==
    IF rows = <<>> THEN <<>>
    ELSE InsertDescending(Head(rows), SortedDescending(Tail(rows)))

\* the numbers of a set in ascending order
RECURSIVE Ascending(_)
Ascending(S) ==
    IF S = {} THEN <<>> ELSE <<SetMin(S)>> \o Ascending(S \ {SetMin(S)})

\* sorted([(np.mean(scores), -C) for C, scores in C_results.items()],
\*        reverse=True); the keys are pairwise different, so the result
\* does not depend on the order of items()
SortedResults(results) ==
    LET keys == Ascending(DOMAIN results)
    IN SortedDescending([i \in 1..Len(keys) |-> RowOf(keys[i], results[keys[i]])])

\* best_C = -C_results[0][1]
BestC(results) == 0 - SortedResults(results)[1].negC

\* the loop that submits one task per candidate and sampled feature
submit_tasks ==
    /\ pc = "prepared"
    /\ C_futures' = Submitted(FanC_choices, FanSample)
    /\ pc' = "submitted"
    /\ UNCHANGED <<PIVOT, glove, embFile, vocabFile, catalog, features, concepts,
                   vocab, embeddings, lastBuild, estimates, C_results,
                   trial_scores, loocv, race>>

\* a worker process completes a task, at any time after submission
worker_finish(i) ==
    /\ pc = "submitted"
    /\ C_futures[i].state = "pending"
    /\ C_futures' = [C_futures EXCEPT ![i].state = "done"]
    /\ UNCHANGED <<PIVOT, glove, embFile, vocabFile, catalog, features, concepts,
                   vocab, embeddings, lastBuild, estimates, pc, C_results,
                   trial_scores, loocv, race>>

\* one iteration of the loop over as_completed(C_futures)
merge(i) ==
    /\ pc = "submitted"
    /\ C_futures[i].state = "done"
    /\ LET r == loocv_result(C_futures[i].C, C_futures[i].f_idx)
       IN C_results' = Extend(C_results, r.C, r.scores)
    /\ C_futures' = [C_futures EXCEPT ![i].state = "merged"]
    /\ UNCHANGED <<PIVOT, glove, embFile, vocabFile, catalog, features, concepts,
                   vocab, embeddings, lastBuild, estimates, pc, trial_scores,
                   loocv, race>>

\* the statements after the loop, reached when as_completed is exhausted
choose_best_C ==
    /\ pc = "submitted"
    /\ \A i \in DOMAIN C_futures : C_futures[i].state = "merged"
    /\ best_C' = BestC(C_results)
    /\ pc' = "chosen"
    /\ UNCHANGED <<PIVOT, glove, embFile, vocabFile, catalog, features, concepts,
                   vocab, embeddings, lastBuild, feature_data, out, summaries,
                   fcat_med, pool, loocv, race>>

\* the other parts of the program are idle during the search
SearchOnly ==
    /\ PIVOT = "cc"
    /\ glove = <<>>
    /\ embFile = [p \in Pivots |-> NoFile]
    /\ vocabFile = NoFile
    /\ catalog = <<>>
    /\ features = <<>>
    /\ concepts = {}
    /\ vocab = <<>>
    /\ embeddings = <<>>
    /\ feature_data = <<>>
    /\ best_C = 0
    /\ out = <<>>
    /\ summaries = <<>>
    /\ fcat_med = <<>>
    /\ lastBuild = [built |-> FALSE, pivot |-> "cc", concepts |-> {},
                    vocab |-> <<>>, embeddings |-> <<>>]

InitFanOut ==
    /\ SearchOnly
    /\ NoLoocv
    /\ NoRace
    /\ pc = "prepared"
    /\ C_futures = <<>>
    /\ C_results = <<>>
    /\ trial_scores \in {TaskScores(seed, {C_list[i] : i \in 1..FanCs},
                                    1..FanFeatures) : seed \in 0..(2 * MaxMargin)}

NextFanOut ==
    \/ submit_tasks
    \/ \E i \in DOMAIN C_futures : worker_finish(i)
    \/ \E i \in DOMAIN C_futures : merge(i)
    \/ choose_best_C

SpecFanOut == InitFanOut /\ [][NextFanOut]_vars

(***************************************************************************)
(* Properties of the fan-out and fan-in                                    *)
(***************************************************************************)

\* how often the value v occurs in the list xs
Count(xs, v) == Cardinality({k \in DOMAIN xs : xs[k] = v})

RECURSIVE SumOver(_, _)
SumOver(f, S) ==
    IF S = {} THEN 0
    ELSE LET x == CHOOSE y \in S : TRUE IN f[x] + SumOver(f, S \ {x})

\* how often v occurs in the score lists of the tasks of C that are in one
\* of the given states
CountInTasks(C, v, states) ==
    LET mine == {i \in DOMAIN C_futures :
                    C_futures[i].C = C /\ C_futures[i].state \in states}
    IN SumOver([i \in mine |->
                   Count(trial_scores[<<C_futures[i].C, C_futures[i].f_idx>>], v)],
               mine)

\* the scores merged for C so far
MergedFor(C) == IF C \in DOMAIN C_results THEN C_results[C] ELSE <<>>

\* C11: at every moment the accumulator of each C holds, as a multiset,
\* exactly the scores of the tasks of that C merged so far, each once; and
\* when best_C has been chosen every submitted task has been merged, so each
\* accumulator holds exactly the scores of all tasks of its C whatever the
\* completion order was, and best_C is computed from these.
C11_MergedOnceIntoOwnC ==
    /\ \A C \in C_choices : \A v \in ScoreValues :
           Count(MergedFor(C), v) = CountInTasks(C, v, {"merged"})
    /\ \A C \in DOMAIN C_results : \A k \in DOMAIN C_results[C] :
           C_results[C][k] \in ScoreValues
    /\ pc = "chosen" =>
           /\ C_futures # <<>>
           /\ \A i \in DOMAIN C_futures : C_futures[i].state = "merged"
           /\ \A C \in C_choices : \A v \in ScoreValues :
                  Count(MergedFor(C), v)
                      = CountInTasks(C, v, {"pending", "done", "merged"})
           /\ best_C = BestC(C_results)

\* the scores of the tasks of C concatenated in submission order
RECURSIVE InSubmissionOrder(_, _)
InSubmissionOrder(C, i) ==
    IF i > Len(C_futures) THEN <<>>
    ELSE (IF C_futures[i].C = C
          THEN trial_scores[<<C, C_futures[i].f_idx>>] ELSE <<>>)
         \o InSubmissionOrder(C, i + 1)

\* best_C has been chosen after the tasks of some C completed in another
\* order than they were submitted in
C11_Witness ==
    /\ pc = "chosen"
    /\ \E C \in DOMAIN C_results : C_results[C] # InSubmissionOrder(C, 1)


(***************************************************************************)
(* loocv_feature: the leave-one-out trials of one (C, feature) task        *)
(***************************************************************************)

\* the rows of X and Y (concepts of the vocabulary), numbered from 0
LooConcepts == 4

\* the trials of one call (n_concept_samples is 5 in the code)
LooSamples == 2

\* the log-probabilities of the model are 0, -1, .., -MaxLogLoss
MaxLogLoss == 2

Rows == 0..(LooConcepts - 1)

\* c_idxs and c_not_idxs
c_idxs == Y_pos

c_not_idxs == Rows \ Y_pos

\* n_f_concepts = min(len(c_idxs), n_concept_samples)
n_f_concepts == IF Cardinality(c_idxs) < LooSamples
                THEN Cardinality(c_idxs) ELSE LooSamples

\* np.random.choice(c_idxs, replace=False, size=n): the lists of n different
\* elements of c_idxs
Choices(S, n) ==
    {xs \in [1..n -> S] : \A j, k \in 1..n : j # k => xs[j] # xs[k]}

\* np.mean of the entries of pred at the given rows, as a fraction
MeanOver(pred, rows) ==
    [num |-> SumOver(pred, rows), den |-> Cardinality(rows)]

\* x - np.mean(..), as a fraction
Minus(x, mean) == [num |-> x * mean.den - mean.num, den |-> mean.den]

\* np.log(pred_prob[c_idx]) - np.mean(np.log(pred_prob[c_not_idxs])): the
\* held-out row against the rows without the feature
TrialScore_HeldOut(c_idx) ==
    Minus(log_prob[c_idx][c_idx], MeanOver(log_prob[c_idx], c_not_idxs))

\* score = np.log(pred_prob[0]) - np.mean(np.log(pred_prob[1:])), where
\* pred_prob = clf_loo.predict_proba(X)[:, f_idx] has one entry per row of X
TrialScore(c_idx) ==
    Minus(log_prob[c_idx][0], MeanOver(log_prob[c_idx], Rows \ {0}))

\* the draw of the positive concepts to hold out
loocv_sample ==
    /\ pc = "loocv called"
    /\ f_concepts' \in Choices(c_idxs, n_f_concepts)
    /\ pc' = "loocv trials"
    /\ UNCHANGED <<PIVOT, glove, embFile, vocabFile, catalog, features, concepts,
                   vocab, embeddings, lastBuild, estimates, pool, Y_pos,
                   log_prob, loo_scores, race>>

\* one iteration of the loop over f_concepts
loocv_trial ==
    /\ pc = "loocv trials"
    /\ Len(loo_scores) < Len(f_concepts)
    /\ loo_scores' = Append(loo_scores, TrialScore(f_concepts[Len(loo_scores) + 1]))
    /\ UNCHANGED <<PIVOT, glove, embFile, vocabFile, catalog, features, concepts,
                   vocab, embeddings, lastBuild, estimates, pool, pc, Y_pos,
                   log_prob, f_concepts, race>>

\* return C, scores
loocv_return ==
    /\ pc = "loocv trials"
    /\ Len(loo_scores) = Len(f_concepts)
    /\ pc' = "loocv returned"
    /\ UNCHANGED <<PIVOT, glove, embFile, vocabFile, catalog, features, concepts,
                   vocab, embeddings, lastBuild, estimates, pool, loocv, race>>

\* the log of predict_proba for the feature, per held-out row c and row i:
\* what the classifier fitted without row c predicts for row i
LogProbs(seed) ==
    [c \in Rows |-> [i \in Rows |->
        0 - ((seed + i + (IF i = c THEN 1 ELSE 0)) % (MaxLogLoss + 1))]]

InitLoocv ==
    /\ SearchOnly
    /\ NoPool
    /\ pc = "loocv called"
    /\ Y_pos \in {S \in SUBSET Rows : S # {} /\ S # Rows}
    /\ log_prob \in {LogProbs(seed) : seed \in 0..MaxLogLoss}
    /\ f_concepts = <<>>
    /\ loo_scores = <<>>
    /\ NoRace

NextLoocv == loocv_sample \/ loocv_trial \/ loocv_return

SpecLoocv == InitLoocv /\ [][NextLoocv]_vars

(***************************************************************************)
(* Properties of the leave-one-out trials                                  *)
(***************************************************************************)

\* equality of two fractions with positive denominators
SameFraction(a, b) == a.num * b.den = b.num * a.den

\* C12: the score of every trial is the log-probability of the held-out
\* concept itself minus the mean log-probability over the concepts that do
\* not have the feature, wherever the held-out concept is in the vocabulary.
C12_ScoresHeldOutAgainstNegatives ==
    \A k \in DOMAIN loo_scores :
        SameFraction(loo_scores[k], TrialScore_HeldOut(f_concepts[k]))


(***************************************************************************)
(* analyze_features: the choice of best_C over the whole grid              *)
(***************************************************************************)

\* the features sampled per candidate when the whole grid is searched
GridFeatures == 1

\* how many candidates share the maximal average
MaxTied == 2

GridSample == [i \in 1..GridFeatures |-> i]

\* score lists for the whole grid: the candidates in tied get lists of
\* average 1 (of two shapes), the others lists of a smaller average
GridScores(tied, r) ==
    [t \in C_choices \X (1..GridFeatures) |->
        IF t[1] \in tied
        THEN (IF IndexOfC(t[1]) % 2 = 0 THEN <<1>> ELSE <<1, 1>>)
        ELSE LET k == (IndexOfC(t[1]) + t[2] + r) % 3
             IN IF k = 0 THEN <<0>> ELSE IF k = 1 THEN <<1, 0>> ELSE <<-1, 1>>]

\* the accumulator after the loop over as_completed has merged the futures
\* from the i-th on
RECURSIVE MergeAll(_, _, _, _)
MergeAll(futs, returned, i, results) ==
    IF i > Len(futs) THEN results
    ELSE MergeAll(futs, returned, i + 1,
                  Extend(results, futs[i].C, returned[<<futs[i].C, futs[i].f_idx>>]))

\* the search has submitted a task for every candidate of the grid and has
\* merged them all
InitChoose ==
    /\ SearchOnly
    /\ NoLoocv
    /\ NoRace
    /\ pc = "submitted"
    /\ \E tied \in {T \in SUBSET C_choices : Cardinality(T) \in 1..MaxTied} :
       \E r \in 0..2 :
           /\ trial_scores = GridScores(tied, r)
           /\ C_futures = [i \in 1..(12 * GridFeatures) |->
                  [Submitted(C_list, GridSample)[i] EXCEPT !.state = "merged"]]
           /\ C_results = MergeAll(Submitted(C_list, GridSample),
                                   GridScores(tied, r), 1, <<>>)

NextChoose == choose_best_C

SpecChoose == InitChoose /\ [][NextChoose]_vars

(***************************************************************************)
(* Properties of the choice of best_C                                      *)
(***************************************************************************)

\* the average of a is smaller than the average of b
MeanLess(a, b) == a.num * b.den < b.num * a.den

\* C13: the chosen best_C is one of the 12 grid values, no candidate has a
\* larger average over its merged scores, and every candidate with the same
\* average is larger than best_C.
C13_BestCIsSmallestArgmax ==
    pc = "chosen" =>
        /\ best_C \in C_choices
        /\ Cardinality(C_choices) = 12
        /\ best_C \in DOMAIN C_results
        /\ \A C \in DOMAIN C_results :
               /\ ~MeanLess(Mean(C_results[best_C]), Mean(C_results[C]))
               /\ (C # best_C /\ ~MeanLess(Mean(C_results[C]), Mean(C_results[best_C])))
                      => best_C < C

\* best_C was chosen among tied candidates, and a larger candidate with the
\* same average, from score lists of another shape, precedes it in C_choices
C13_Witness ==
    /\ pc = "chosen"
    /\ DOMAIN C_results = C_choices
    /\ \E C \in C_choices :
           /\ C # best_C
           /\ IndexOfC(C) < IndexOfC(best_C)
           /\ C_results[C] # C_results[best_C]
           /\ ~MeanLess(Mean(C_results[C]), Mean(C_results[best_C]))
           /\ ~MeanLess(Mean(C_results[best_C]), Mean(C_results[C]))


(***************************************************************************)
(* load_embeddings run by several processes at once, statement by          *)
(* statement, on the files they share                                      *)
(***************************************************************************)

\* the processes that run load_embeddings
NumRuns == 2

Procs == 1..NumRuns

\* the frame of the steps of a concurrent run
raceFrame == <<PIVOT, glove, catalog, features, concepts, vocab, embeddings,
               lastBuild, estimates, pool, loocv, pc>>

\* the run r moves to the statement at
Goto(r, at) == runs' = [runs EXCEPT ![r].at = at]

\* if Path(EMBEDDINGS).is_file()
race_is_file(r) ==
    /\ runs[r].at = "start"
    /\ Goto(r, IF embFile[PIVOT].exists THEN "np.load" ELSE "scan")
    /\ UNCHANGED <<raceFrame, embFile, vocabFile, saving>>

\* embeddings = np.load(EMBEDDINGS); a file that np.save has created and not
\* finished is not a readable array
race_np_load(r) ==
    /\ runs[r].at = "np.load"
    /\ runs' = IF saving # {}
               THEN [runs EXCEPT ![r].at = "np.load error"]
               ELSE [runs EXCEPT ![r].at = "assert VOCAB",
                                 ![r].embeddings = embFile[PIVOT].data]
    /\ UNCHANGED <<raceFrame, embFile, vocabFile, saving>>

\* assert Path(VOCAB).is_file()
race_assert_vocab(r) ==
    /\ runs[r].at = "assert VOCAB"
    /\ Goto(r, IF vocabFile.exists THEN "read VOCAB"
               ELSE "AssertionError (VOCAB is no file)")
    /\ UNCHANGED <<raceFrame, embFile, vocabFile, saving>>

\* the read of VOCAB, the size assertion and the return of the hit path
race_read_vocab(r) ==
    /\ runs[r].at = "read VOCAB"
    /\ LET voc == ReadVocabFile(vocabFile.data)
       IN runs' = [runs EXCEPT
              ![r].vocab = voc,
              ![r].at = IF SizesAgree(runs[r].embeddings, voc)
                        THEN "hit" ELSE "AssertionError (sizes)"]
    /\ UNCHANGED <<raceFrame, embFile, vocabFile, saving>>

\* the scan of INPUT and the sort of the miss path
race_scan(r) ==
    /\ runs[r].at = "scan"
    /\ LET scan == ScanGlove(glove[PIVOT], concepts, <<>>)
       IN runs' = IF scan.raised # ""
                  THEN [runs EXCEPT ![r].at = scan.raised]
                  ELSE [runs EXCEPT ![r].at = "np.save",
                                    ![r].vocab = MissVocab(scan.pairs),
                                    ![r].embeddings = MissEmbeddings(scan.pairs)]
    /\ UNCHANGED <<raceFrame, embFile, vocabFile, saving>>

\* np.save(EMBEDDINGS, embeddings) opens the file for writing ..
race_np_save_open(r) ==
    /\ runs[r].at = "np.save"
    /\ embFile' = [embFile EXCEPT ![PIVOT] = File(<<>>)]
    /\ saving' = saving \cup {r}
    /\ Goto(r, "np.save writes")
    /\ UNCHANGED <<raceFrame, vocabFile>>

\* .. and writes the array and closes it
race_np_save_write(r) ==
    /\ runs[r].at = "np.save writes"
    /\ embFile' = [embFile EXCEPT ![PIVOT] = File(runs[r].embeddings)]
    /\ saving' = saving \ {r}
    /\ Goto(r, "open VOCAB")
    /\ UNCHANGED <<raceFrame, vocabFile>>

\* the process is killed after np.save and before open(VOCAB, "w")
race_interrupt(r) ==
    /\ runs[r].at = "open VOCAB"
    /\ Goto(r, "interrupted")
    /\ UNCHANGED <<raceFrame, embFile, vocabFile, saving>>

\* open(VOCAB, "w") creates or truncates the file ..
race_vocab_open(r) ==
    /\ runs[r].at = "open VOCAB"
    /\ vocabFile' = File(<<>>)
    /\ Goto(r, "write VOCAB")
    /\ UNCHANGED <<raceFrame, embFile, saving>>

\* .. vocab_f.write("\n".join(vocab)), the close, and the return
race_vocab_write(r) ==
    /\ runs[r].at = "write VOCAB"
    /\ vocabFile' = File(VocabFileText(runs[r].vocab))
    /\ Goto(r, "miss")
    /\ UNCHANGED <<raceFrame, embFile, saving>>

\* the runs start on an empty cache, with one pivot and one concept set
InitRace ==
    /\ PIVOT = "cc"
    /\ \E g \in GloveFiles : glove = [p \in Pivots |-> g]
    /\ concepts \in SUBSET Words
    /\ embFile = [p \in Pivots |-> NoFile]
    /\ vocabFile = NoFile
    /\ catalog = <<>>
    /\ features = <<>>
    /\ vocab = <<>>
    /\ embeddings = <<>>
    /\ feature_data = <<>>
    /\ best_C = 0
    /\ out = <<>>
    /\ summaries = <<>>
    /\ fcat_med = <<>>
    /\ NoPool
    /\ NoLoocv
    /\ pc = "racing"
    /\ lastBuild = [built |-> FALSE, pivot |-> "cc", concepts |-> {},
                    vocab |-> <<>>, embeddings |-> <<>>]
    /\ runs = [r \in Procs |-> [at |-> "start", vocab |-> <<>>, embeddings |-> <<>>]]
    /\ saving = {}

NextRace ==
    \E r \in Procs :
        \/ race_is_file(r)
        \/ race_np_load(r)
        \/ race_assert_vocab(r)
        \/ race_read_vocab(r)
        \/ race_scan(r)
        \/ race_np_save_open(r)
        \/ race_np_save_write(r)
        \/ race_interrupt(r)
        \/ race_vocab_open(r)
        \/ race_vocab_write(r)

SpecRace == InitRace /\ [][NextRace]_vars

(***************************************************************************)
(* Properties of concurrent and interrupted runs                           *)
(***************************************************************************)

\* the result of the build every run of the race computes
RaceBuild == ScanGlove(glove[PIVOT], concepts, <<>>)

\* C14: in the race of runs from an empty cache, some of them interrupted
\* between the two writes, a run that has loaded the matrix file finds the
\* vocabulary file of the build, so that no run fails the vocabulary-file or
\* the size assertion, and a run that returns from the hit path returns the
\* matrix and the vocabulary of the build.
C14_NoHitOnHalfWrittenCache ==
    \A r \in DOMAIN runs :
        /\ runs[r].at \in {"assert VOCAB", "read VOCAB"} =>
               /\ vocabFile.exists
               /\ vocabFile.data = VocabFileText(MissVocab(RaceBuild.pairs))
        /\ runs[r].at \notin {"AssertionError (VOCAB is no file)",
                              "AssertionError (sizes)"}
        /\ runs[r].at = "hit" =>
               /\ runs[r].vocab = MissVocab(RaceBuild.pairs)
               /\ runs[r].embeddings = MissEmbeddings(RaceBuild.pairs)

====
